---- MODULE Spec2Model ----
(***************************************************************************)
(* Model of the pull-request review agent: the webhook shell               *)
(* (src/index.ts), the review orchestration engine (review-engine.ts) and  *)
(* the posting layer (review-engine-core.ts).                              *)
(*                                                                         *)
(* JavaScript values that are not strings are written as the sentinels     *)
(* Undefined and Null; a line number is a small record so that a missing   *)
(* line, a null line and a numeric line stay distinguishable.              *)
(***************************************************************************)
EXTENDS Integers, Sequences, FiniteSets, TLC

\* ------------------------------------------------------------------------
\* Bounds of the model
\* ------------------------------------------------------------------------
MaxDeliveries == 3

\* ------------------------------------------------------------------------
\* Program constants
\* ------------------------------------------------------------------------
MAX_FILE_CHANGES == 800

MAX_FILES == 15

BATCH_SIZE == 1

\* ------------------------------------------------------------------------
\* JavaScript values
\* ------------------------------------------------------------------------
Undefined == "<undefined>"

Null == "<null>"

NonString == "<number>"

IsString(v) == v \notin {Undefined, Null, NonString}

NoLine == [t |-> "undef", v |-> 0]

NullLine == [t |-> "null", v |-> 0]

Num(n) == [t |-> "num", v |-> n]

\* `${value}` inside a template literal
TemplateStr(v) ==
  IF v = Undefined THEN "undefined"
  ELSE IF v = Null THEN "null"
  ELSE IF v = NonString THEN "0"
  ELSE v

LineStr(l) ==
  IF l.t = "undef" THEN "undefined"
  ELSE IF l.t = "null" THEN "null"
  ELSE ToString(l.v)

\* (f.line || 0)
LineOrZero(l) == IF l.t = "num" THEN l.v ELSE 0

Abs(n) == IF n < 0 THEN 0 - n ELSE n

RECURSIVE Flat(_)
Flat(runs) == IF runs = <<>> THEN <<>> ELSE Head(runs) \o Flat(Tail(runs))

RECURSIVE SelectSeqIdx(_, _, _)
\* the subsequence of s at the positions in keep, in order
SelectSeqIdx(s, keep, i) ==
  IF i > Len(s) THEN <<>>
  ELSE (IF i \in keep THEN <<s[i]>> ELSE <<>>) \o SelectSeqIdx(s, keep, i + 1)

Range(s) == {s[i] : i \in 1..Len(s)}

Min(a, b) == IF a < b THEN a ELSE b

\* ------------------------------------------------------------------------
\* Configuration loader: ignore patterns
\* ------------------------------------------------------------------------
\* The patterns getIgnorePatterns falls back to; each is anchored with $,
\* so RegExp.test is a suffix test on the file name.
IgnorePatterns ==
  {"package-lock.json", "yarn.lock", "pnpm-lock.yaml", ".min.js", ".map"}

PatternTest(pattern, filename) ==
  /\ Len(filename) >= Len(pattern)
  /\ SubSeq(filename, Len(filename) - Len(pattern) + 1, Len(filename)) = pattern

\* ------------------------------------------------------------------------
\* Review engine: file filtering
\* ------------------------------------------------------------------------
IsIgnored(f) == \E pattern \in IgnorePatterns : PatternTest(pattern, f.filename)

IsTooLarge(f) == f.changes >= MAX_FILE_CHANGES

RECURSIVE FilterWalk(_, _, _)
\* the callback of files.filter: walks the list once, counting as it drops
FilterWalk(files, i, acc) ==
  IF i > Len(files) THEN acc
  ELSE IF IsIgnored(files[i])
    THEN FilterWalk(files, i + 1, [acc EXCEPT !.ignored = @ + 1])
  ELSE IF IsTooLarge(files[i])
    THEN FilterWalk(files, i + 1, [acc EXCEPT !.tooLarge = @ + 1])
  ELSE FilterWalk(files, i + 1, [acc EXCEPT !.filtered = Append(@, files[i])])

\* mutant: the list is not truncated to MAX_FILES
filterFilesNoTruncate(files) ==
  LET w == FilterWalk(files, 1, [filtered |-> <<>>, ignored |-> 0, tooLarge |-> 0])
  IN [result |-> w.filtered,
      stats |-> [total |-> Len(files), reviewed |-> Len(w.filtered),
                 ignored |-> w.ignored, tooLarge |-> w.tooLarge]]

filterFiles(files) ==
  LET w == FilterWalk(files, 1, [filtered |-> <<>>, ignored |-> 0, tooLarge |-> 0])
      result == SubSeq(w.filtered, 1, Min(MAX_FILES, Len(w.filtered)))
  IN [result |-> result,
      stats |-> [total |-> Len(files), reviewed |-> Len(result),
                 ignored |-> w.ignored, tooLarge |-> w.tooLarge]]

\* ------------------------------------------------------------------------
\* Posting layer: diff hunks
\* ------------------------------------------------------------------------
\* A patch is a sequence of lines.  A header line records whether each side
\* carries its ",count" part: /@@ -\d+,\d+ \+(\d+),(\d+) @@/ matches only a
\* header that has both.  c and d are the new-side start and length.
HunkLine(c, d) == [kind |-> "hunk", oldCount |-> TRUE, newCount |-> TRUE, c |-> c, d |-> d]

ShortHunkLine(c) == [kind |-> "hunk", oldCount |-> TRUE, newCount |-> FALSE, c |-> c, d |-> 1]

TextLine == [kind |-> "text", oldCount |-> FALSE, newCount |-> FALSE, c |-> 0, d |-> 0]

HunkRegexMatches(pl) == pl.kind = "hunk" /\ pl.oldCount /\ pl.newCount

\* mutant: the end of the hunk range taken inclusive
isLineInHunkInclusive(patch, line) ==
  \E i \in 1..Len(patch) :
    /\ HunkRegexMatches(patch[i])
    /\ line >= patch[i].c
    /\ line <= patch[i].c + patch[i].d

isLineInHunk(patch, line) ==
  \E i \in 1..Len(patch) :
    /\ HunkRegexMatches(patch[i])
    /\ line >= patch[i].c
    /\ line < patch[i].c + patch[i].d

\* ------------------------------------------------------------------------
\* Review engine: merging the passes
\* ------------------------------------------------------------------------
FindingKey(f) ==
  TemplateStr(f.filename) \o ":" \o LineStr(f.line) \o ":" \o TemplateStr(f.category)

RECURSIVE DedupWalk(_, _, _)
DedupWalk(findings, i, seen) ==
  IF i > Len(findings) THEN seen
  ELSE IF \E j \in 1..Len(seen) : FindingKey(seen[j]) = FindingKey(findings[i])
    THEN DedupWalk(findings, i + 1, seen)
  ELSE DedupWalk(findings, i + 1, Append(seen, findings[i]))

\* mutant: a later finding with the same key replaces the earlier one
deduplicateFindingsKeepLast(findings) ==
  LET n == Len(findings)
      keep == {i \in 1..n :
                 ~\E j \in (i + 1)..n : FindingKey(findings[j]) = FindingKey(findings[i])}
  IN SelectSeqIdx(findings, keep, 1)

deduplicateFindings(findings) == DedupWalk(findings, 1, <<>>)

\* mutant: the line numbers have to be equal
isSameFindingExactLine(f1, f2) ==
  /\ f1.filename = f2.filename
  /\ LineOrZero(f1.line) = LineOrZero(f2.line)
  /\ f1.category = f2.category

isSameFinding(f1, f2) ==
  /\ f1.filename = f2.filename
  /\ Abs(LineOrZero(f1.line) - LineOrZero(f2.line)) <= 2
  /\ f1.category = f2.category

\* mutant: the threshold rounded down
CeilHalfFloor(n) == n \div 2

CeilHalf(n) == (n + 1) \div 2

\* mutant: the majority is taken among the findings of the first pass
mergeFindingsMajorityOfFirst(runs, strategy) ==
  IF strategy = "union" THEN deduplicateFindings(Flat(runs))
  ELSE IF strategy = "intersection" THEN
    SelectSeq(runs[1],
              LAMBDA f1 : \A r \in 1..Len(runs) :
                            \E k \in 1..Len(runs[r]) : isSameFinding(f1, runs[r][k]))
  ELSE IF strategy = "majority" THEN
    SelectSeq(runs[1],
              LAMBDA f : Cardinality({r \in 1..Len(runs) :
                            \E k \in 1..Len(runs[r]) : isSameFinding(f, runs[r][k])})
                         >= CeilHalf(Len(runs)))
  ELSE Flat(runs)

mergeFindings(runs, strategy) ==
  IF strategy = "union" THEN deduplicateFindings(Flat(runs))
  ELSE IF strategy = "intersection" THEN
    SelectSeq(runs[1],
              LAMBDA f1 : \A r \in 1..Len(runs) :
                            \E k \in 1..Len(runs[r]) : isSameFinding(f1, runs[r][k]))
  ELSE IF strategy = "majority" THEN
    SelectSeq(deduplicateFindings(Flat(runs)),
              LAMBDA f : Cardinality({r \in 1..Len(runs) :
                            \E k \in 1..Len(runs[r]) : isSameFinding(f, runs[r][k])})
                         >= CeilHalf(Len(runs)))
  ELSE Flat(runs)

\* const mergeStrategy = process.env.PR_REVIEW_MERGE_STRATEGY || 'union'
MergeStrategy(value) == IF value \in {"", Undefined} THEN "union" ELSE value

\* ------------------------------------------------------------------------
\* Review engine: parsing a model reply
\* ------------------------------------------------------------------------
\* A reply is a sequence of tokens: "FENCE" (a code fence), "NL" (a newline),
\* "SP" (other white space), "[", "]", ",", "txt" (prose without brackets,
\* fences or newlines) and the names of JSON objects, whose parsed value
\* JsonObject gives.
Finding(sev, cat, file, line) ==
  [severity |-> sev, category |-> cat, filename |-> file, line |-> line]

\* property reads on a JSON value that is not an object (a nested array)
NonObject == Finding(Undefined, Undefined, Undefined, NoLine)

JsonObject ==
  [ o \in {"{high@20}", "{medium@19}", "{medium@28}", "{high}", "{nocategory}",
           "{numseverity@20}", "{other@20}"} |->
    CASE o = "{high@20}" -> Finding("high", "bug", "src/a.ts", Num(20))
      [] o = "{medium@19}" -> Finding("medium", "security", "src/a.ts", Num(19))
      [] o = "{medium@28}" -> Finding("medium", "bug", "src/a.ts", Num(28))
      [] o = "{high}" -> Finding("high", "bug", "src/a.ts", NoLine)
      [] o = "{nocategory}" -> Finding("high", Undefined, "src/a.ts", Num(20))
      [] o = "{numseverity@20}" -> Finding(NonString, "bug", "src/a.ts", Num(20))
      [] o = "{other@20}" -> Finding("medium", "performance", "src/b.ts", Num(20)) ]

IsSpace(tok) == tok \in {"NL", "SP"}

RECURSIVE TrimStart(_)
TrimStart(t) == IF t # <<>> /\ IsSpace(Head(t)) THEN TrimStart(Tail(t)) ELSE t

RECURSIVE TrimEnd(_)
TrimEnd(t) ==
  IF t # <<>> /\ IsSpace(t[Len(t)]) THEN TrimEnd(SubSeq(t, 1, Len(t) - 1)) ELSE t

Trim(t) == TrimEnd(TrimStart(t))

\* String.indexOf / lastIndexOf, 1-based; 0 stands for -1
IndexOf(t, tok) ==
  IF \E i \in 1..Len(t) : t[i] = tok
    THEN CHOOSE i \in 1..Len(t) : t[i] = tok /\ \A j \in 1..(i - 1) : t[j] # tok
    ELSE 0

LastIndexOf(t, tok) ==
  IF \E i \in 1..Len(t) : t[i] = tok
    THEN CHOOSE i \in 1..Len(t) : t[i] = tok /\ \A j \in (i + 1)..Len(t) : t[j] # tok
    ELSE 0

StripLeadingFence(t) ==
  IF t # <<>> /\ Head(t) = "FENCE" /\ IndexOf(t, "NL") # 0
    THEN Trim(SubSeq(t, IndexOf(t, "NL"), Len(t)))
    ELSE t

StripTrailingFence(t) ==
  IF t # <<>> /\ t[Len(t)] = "FENCE"
    THEN Trim(SubSeq(t, 1, LastIndexOf(t, "FENCE") - 1))
    ELSE t

NoSpace(t) == SelectSeq(t, LAMBDA tok : ~IsSpace(tok))

ParseFail == [ok |-> FALSE, val |-> <<>>, next |-> 0]

RECURSIVE JsonElements(_, _, _)
\* JSON.parse on the tokens of an array, from the token after a "[" or ",":
\* the elements up to the matching "]" and the position after it
JsonElements(t, i, acc) ==
  IF i > Len(t) THEN ParseFail
  ELSE
    LET v == IF t[i] \in DOMAIN JsonObject
               THEN [ok |-> TRUE, val |-> JsonObject[t[i]], next |-> i + 1]
             ELSE IF t[i] = "["
               THEN IF i + 1 <= Len(t) /\ t[i + 1] = "]"
                      THEN [ok |-> TRUE, val |-> NonObject, next |-> i + 2]
                      ELSE LET inner == JsonElements(t, i + 1, <<>>)
                           IN [ok |-> inner.ok, val |-> NonObject, next |-> inner.next]
             ELSE ParseFail
    IN IF ~v.ok \/ v.next > Len(t) THEN ParseFail
       ELSE IF t[v.next] = "," THEN JsonElements(t, v.next + 1, Append(acc, v.val))
       ELSE IF t[v.next] = "]"
         THEN [ok |-> TRUE, val |-> Append(acc, v.val), next |-> v.next + 1]
       ELSE ParseFail

\* JSON.parse(arrayContent), arrayContent starting with "[" and ending with "]"
JsonParseArray(content) ==
  LET t == NoSpace(content)
  IN IF Len(t) = 2 THEN [ok |-> TRUE, val |-> <<>>]
     ELSE LET r == JsonElements(t, 2, <<>>)
          IN IF r.ok /\ r.next = Len(t) + 1
               THEN [ok |-> TRUE, val |-> r.val]
               ELSE [ok |-> FALSE, val |-> <<>>]

\* mutant: JSON.parse outside the try block
parseReviewResponseRethrow(rawResponse) ==
  LET jsonString == StripTrailingFence(StripLeadingFence(Trim(rawResponse)))
      start == IndexOf(jsonString, "[")
      end == LastIndexOf(jsonString, "]")
  IN IF start = 0 \/ end = 0 \/ start >= end THEN [threw |-> FALSE, findings |-> <<>>]
     ELSE LET parsed == JsonParseArray(SubSeq(jsonString, start, end))
          IN [threw |-> ~parsed.ok, findings |-> parsed.val]

parseReviewResponse(rawResponse) ==
  LET jsonString == StripTrailingFence(StripLeadingFence(Trim(rawResponse)))
      start == IndexOf(jsonString, "[")
      end == LastIndexOf(jsonString, "]")
  IN IF start = 0 \/ end = 0 \/ start >= end THEN [threw |-> FALSE, findings |-> <<>>]
     ELSE LET parsed == JsonParseArray(SubSeq(jsonString, start, end))
          IN [threw |-> FALSE, findings |-> IF parsed.ok THEN parsed.val ELSE <<>>]

\* ------------------------------------------------------------------------
\* Posting layer: postReview
\* ------------------------------------------------------------------------
\* this.filePatches.get(filename): the constructor maps every reviewed file
\* to (patch || ''), a later file of the same name replacing an earlier one;
\* the empty patch stands for both '' and a missing entry, which !patch
\* treats alike.
FilePatch(files, filename) ==
  LET hits == {i \in 1..Len(files) : files[i].filename = filename}
  IN IF hits = {} THEN <<>>
     ELSE files[CHOOSE i \in hits : \A j \in hits : j <= i].patch

\* the filter chain that prepares the inline comments
IsValidInline(files, f) ==
  /\ f.line.t # "undef"
  /\ FilePatch(files, f.filename) # <<>>
  /\ ~(LineOrZero(f.line) <= 0)
  /\ isLineInHunk(FilePatch(files, f.filename), f.line.v)

InlineComments(files, findings) ==
  LET valid == SelectSeq(findings, LAMBDA f : IsValidInline(files, f))
  IN [i \in 1..Len(valid) |->
        [path |-> valid[i].filename, line |-> valid[i].line.v, side |-> "RIGHT"]]

\* f.category.toUpperCase() while a section of the body is written: every
\* finding falls in exactly one of the four sections
BodyThrows(findings) ==
  \E i \in 1..Len(findings) : ~IsString(findings[i].category)

\* f.severity?.toUpperCase() while an inline comment is written
CommentThrows(files, findings) ==
  \E i \in 1..Len(findings) :
    IsValidInline(files, findings[i]) /\ findings[i].severity = NonString

Coverage(stats) ==
  IF stats.ignored > 0 \/ stats.tooLarge > 0
    THEN [shown |-> TRUE, reviewed |-> stats.reviewed, total |-> stats.total,
          ignored |-> stats.ignored, tooLarge |-> stats.tooLarge]
    ELSE [shown |-> FALSE, reviewed |-> 0, total |-> 0, ignored |-> 0, tooLarge |-> 0]

SummaryBody(stats, findings) ==
  [coverage |-> Coverage(stats), found |-> Len(findings)]

HasHigh(findings) == \E i \in 1..Len(findings) : findings[i].severity = "high"

ReviewEvent(findings) == IF HasHigh(findings) THEN "REQUEST_CHANGES" ELSE "COMMENT"

NoRequest == [api |-> "none", event |-> "none", comments |-> <<>>,
              body |-> [coverage |-> Coverage([ignored |-> 0, tooLarge |-> 0]), found |-> 0]]

\* What postReview does up to its one platform call: it throws, returns
\* without a call, or issues the request given here.
postReview(files, stats, findings) ==
  IF BodyThrows(findings) \/ CommentThrows(files, findings)
    THEN [threw |-> TRUE, request |-> NoRequest]
  ELSE IF InlineComments(files, findings) = <<>> /\ findings # <<>>
    THEN [threw |-> FALSE,
          request |-> [api |-> "createComment", event |-> "none", comments |-> <<>>,
                       body |-> SummaryBody(stats, findings)]]
  ELSE IF InlineComments(files, findings) = <<>> /\ findings = <<>>
    THEN [threw |-> FALSE, request |-> NoRequest]
  ELSE [threw |-> FALSE,
        request |-> [api |-> "createReview", event |-> ReviewEvent(findings),
                     comments |-> InlineComments(files, findings),
                     body |-> SummaryBody(stats, findings)]]

\* ------------------------------------------------------------------------
\* State
\* ------------------------------------------------------------------------
VARIABLES
  processingPRs,  \* index.ts: the in-memory set of dedup keys
  tasks,          \* the review tasks handed to setImmediate, in scheduling order
  budget,         \* pull_request deliveries the platform will still send
  dropped,        \* deliveries ignored as duplicates so far
  env,            \* process.env and the loaded configuration, fixed at start
  prFiles,        \* what pulls.listFiles returns for each pull request
  llm,            \* the reply texts the model backend can produce
  unit,           \* one call of a pure function: its arguments and its result
  script,         \* the run of a command-line tool: plan, position, subprocesses, files
  loader          \* the ConfigLoader: the file on disk, the cached object, the last call

vars == <<processingPRs, tasks, budget, dropped, env, prFiles, llm, unit, script, loader>>

PRKeys == {"octo/app#1", "octo/app#2"}

NoStats == [total |-> 0, reviewed |-> 0, ignored |-> 0, tooLarge |-> 0]

\* mutant: the handler awaits the review itself instead of scheduling it
NewTaskInline(prKey) ==
  [key |-> prKey, pc |-> "awaitListFiles", files |-> <<>>, stats |-> NoStats,
   pass |-> 0, i |-> 0, allFindings |-> <<>>, allRuns |-> <<>>,
   request |-> NoRequest, calls |-> <<>>, merged |-> FALSE, listed |-> FALSE,
   posts |-> <<>>, faulted |-> FALSE, released |-> 0,
   error |-> 0, quoted |-> 0, missed |-> FALSE]

\* the task handed to setImmediate: nothing of it has run
NewTask(prKey) ==
  [key |-> prKey, pc |-> "scheduled", files |-> <<>>, stats |-> NoStats,
   pass |-> 0, i |-> 0, allFindings |-> <<>>, allRuns |-> <<>>,
   request |-> NoRequest, calls |-> <<>>, merged |-> FALSE, listed |-> FALSE,
   posts |-> <<>>, faulted |-> FALSE, released |-> 0,
   error |-> 0, quoted |-> 0, missed |-> FALSE]

Active(task) == task.pc # "done"

\* ------------------------------------------------------------------------
\* Webhook shell: the pull_request handler
\* ------------------------------------------------------------------------
\* mutant: the handler does not look at the set
IsDuplicateNever(prKey, processing) == FALSE

IsDuplicate(prKey, processing) == prKey \in processing

\* One delivery: the handler runs to its end without a suspension point, so
\* the check and the add are one step. missed records, on the task that holds
\* the key, that a delivery was ignored after the task had its file listing.
Deliver(prKey) ==
  /\ budget > 0
  /\ budget' = budget - 1
  /\ IF IsDuplicate(prKey, processingPRs)
       THEN /\ dropped' = dropped + 1
            /\ tasks' = [t \in 1..Len(tasks) |->
                           IF tasks[t].key = prKey /\ Active(tasks[t])
                             THEN [tasks[t] EXCEPT !.missed = @ \/ tasks[t].listed]
                             ELSE tasks[t]]
            /\ UNCHANGED processingPRs
       ELSE /\ processingPRs' = processingPRs \cup {prKey}
            /\ tasks' = Append(tasks, NewTask(prKey))
            /\ UNCHANGED dropped
  /\ UNCHANGED <<env, prFiles, llm, unit, script, loader>>

\* ------------------------------------------------------------------------
\* Review engine: the steps of one review, between suspension points
\* ------------------------------------------------------------------------
MultiPass == env.multipass /\ env.passes > 1

NumPasses == IF MultiPass THEN env.passes ELSE 1

\* this.llm.generateReview(prompt) is called for files[i] and awaited.  The
\* prompt template holds literal text (it is checked at construction), so the
\* built prompt is never empty and no file is skipped before its call.
IssueCall(task) ==
  [task EXCEPT !.pc = "awaitLLM",
               !.calls = Append(@, [pass |-> task.pass, file |-> task.i,
                                    state |-> "inflight", findings |-> <<>>])]

\* An error is followed by the length of its message only.  error is the
\* message length of the error a catch block holds, quoted the number of its
\* characters in the body of the error comment that block requests.
Thrown(task, messageLen) == [task EXCEPT !.faulted = TRUE, !.error = messageLen]

\* f.category.toUpperCase() on a finding without a category
TypeErrorMessage == "Cannot read properties of undefined (reading 'toUpperCase')"

\* error.message.substring(0, 500)
MaxErrorChars == 500

Substring(messageLen, end) == Min(messageLen, end)

\* the catch block of reviewPR: the error comment is requested, its body
\* holding ${error.message}
EngineCatch(task) ==
  [task EXCEPT !.pc = "awaitEngineComment", !.quoted = task.error]

\* the catch block of the scheduled task: the error comment is requested,
\* its body holding ${error.message.substring(0, 500)}
ShellCatch(task) ==
  [task EXCEPT !.pc = "awaitShellComment",
               !.quoted = Substring(task.error, MaxErrorChars)]

\* mutant: the key is released at the end of the try block only
ReleasesKeyOnSuccessOnly(outcome) == outcome = "returned"

\* the finally block runs whatever the outcome of the try and catch blocks
ReleasesKey(outcome) == outcome \in {"returned", "commentPosted", "commentFailed"}

Released(task, outcome) == IF ReleasesKey(outcome) THEN 1 ELSE 0

\* the task ends: only what it did to the pull request is kept
Finished(task, outcome) ==
  [NewTask(task.key) EXCEPT !.pc = "done", !.posts = task.posts,
                            !.listed = task.listed, !.faulted = task.faulted,
                            !.error = task.error, !.quoted = task.quoted,
                            !.missed = task.missed,
                            !.released = task.released + Released(task, outcome)]

\* reviewPR from the end of generateReview to its platform call
PostFindings(task, findings) ==
  IF findings # <<>>
    THEN LET r == postReview(task.files, task.stats, findings)
         IN IF r.threw
              THEN EngineCatch([task EXCEPT !.error = Len(TypeErrorMessage)])
            ELSE [task EXCEPT !.pc = "awaitPost", !.request = r.request]
    ELSE [task EXCEPT !.pc = "awaitPost",
                      !.request = [NoRequest EXCEPT !.api = "createComment",
                                                    !.event = "noIssues"]]

\* mutant: a failed call is retried
NextIndexRetry(i, threw) == IF threw THEN i ELSE i + BATCH_SIZE

\* mutant: a failed call ends the pass
NextIndexAbort(i, threw) == IF threw THEN MAX_FILES + 1 ELSE i + BATCH_SIZE

\* the for loop of generateSinglePassReview: the catch falls through to i += BATCH_SIZE
NextIndex(i, threw) == i + BATCH_SIZE

\* generateReview and generateSinglePassReview after the reply for files[i]
AfterReply(task, threw, findings) ==
  LET logged == [task EXCEPT
                   !.calls[Len(task.calls)].state = IF threw THEN "threw" ELSE "parsed",
                   !.calls[Len(task.calls)].findings = findings,
                   !.allFindings = @ \o findings,
                   !.faulted = @ \/ threw]
      next == NextIndex(task.i, threw)
  IN IF next <= Len(task.files)
       THEN IssueCall([logged EXCEPT !.i = next])
     ELSE IF ~MultiPass
       THEN PostFindings([logged EXCEPT !.merged = TRUE], logged.allFindings)
     ELSE LET pushed == [logged EXCEPT !.allRuns = Append(@, logged.allFindings)]
          IN IF task.pass < env.passes
               THEN IssueCall([pushed EXCEPT !.pass = @ + 1, !.i = 1, !.allFindings = <<>>])
               ELSE PostFindings([pushed EXCEPT !.merged = TRUE],
                                 mergeFindings(pushed.allRuns, MergeStrategy(env.strategy)))

Step(t, task) ==
  /\ tasks' = [tasks EXCEPT ![t] = task]
  /\ UNCHANGED <<processingPRs, budget, dropped, env, prFiles, llm, unit, script, loader>>

\* the finally block of the scheduled task, then the task is over
End(t, task, outcome) ==
  /\ tasks' = [tasks EXCEPT ![t] = Finished(task, outcome)]
  /\ processingPRs' = IF ReleasesKey(outcome) THEN processingPRs \ {task.key}
                      ELSE processingPRs
  /\ UNCHANGED <<budget, dropped, env, prFiles, llm, unit, script, loader>>

\* setImmediate runs the task: the provider and the engine are created and
\* reviewPR asks the platform for the files of the pull request
TaskStart(t) ==
  /\ t \in 1..Len(tasks)
  /\ tasks[t].pc = "scheduled"
  /\ IF env.providerOk
       THEN Step(t, [tasks[t] EXCEPT !.pc = "awaitListFiles"])
       ELSE Step(t, ShellCatch(Thrown(tasks[t], env.errorLen)))

\* pulls.listFiles settles; the files are filtered and the first model call is made
ListFilesReturn(t) ==
  /\ t \in 1..Len(tasks)
  /\ tasks[t].pc = "awaitListFiles"
  /\ \E ok \in BOOLEAN :
       IF ~ok THEN Step(t, EngineCatch(Thrown(tasks[t], env.errorLen)))
       ELSE LET ff == filterFiles(prFiles[tasks[t].key])
                listed == [tasks[t] EXCEPT !.listed = TRUE, !.stats = ff.stats,
                                           !.files = ff.result]
            IN IF ff.result = <<>>
                 THEN End(t, listed, "returned")
                 ELSE Step(t, IssueCall([listed EXCEPT !.pass = 1, !.i = 1]))

\* the model call settles: it throws, or its reply is parsed
LLMReturn(t) ==
  /\ t \in 1..Len(tasks)
  /\ tasks[t].pc = "awaitLLM"
  /\ \/ Step(t, AfterReply(tasks[t], TRUE, <<>>))
     \/ \E reply \in llm :
          LET parsed == parseReviewResponse(reply)
          IN Step(t, AfterReply(tasks[t], parsed.threw, parsed.findings))

PostKind(request) ==
  IF request.event = "noIssues" THEN "noIssues"
  ELSE IF request.api = "createComment" THEN "issueComment"
  ELSE "review"

\* the platform call of the no-issues comment or of postReview settles
PostReturn(t) ==
  /\ t \in 1..Len(tasks)
  /\ tasks[t].pc = "awaitPost"
  /\ \E ok \in BOOLEAN :
       IF ok
         THEN End(t, [tasks[t] EXCEPT !.posts = Append(@, PostKind(tasks[t].request))],
                  "returned")
         ELSE Step(t, EngineCatch(Thrown(tasks[t], env.errorLen)))

\* the error comment of reviewPR settles; its failure reaches the shell's catch
EngineCommentReturn(t) ==
  /\ t \in 1..Len(tasks)
  /\ tasks[t].pc = "awaitEngineComment"
  /\ \E ok \in BOOLEAN :
       IF ok
         THEN End(t, [tasks[t] EXCEPT !.posts = Append(@, "engineError")], "returned")
         ELSE Step(t, ShellCatch(Thrown(tasks[t], env.errorLen)))

\* the error comment of the shell settles; its failure is logged only
ShellCommentReturn(t) ==
  /\ t \in 1..Len(tasks)
  /\ tasks[t].pc = "awaitShellComment"
  /\ \E ok \in BOOLEAN :
       IF ok
         THEN End(t, [tasks[t] EXCEPT !.posts = Append(@, "shellError")], "commentPosted")
         ELSE End(t, [tasks[t] EXCEPT !.faulted = TRUE], "commentFailed")

TaskStep(t) ==
  \/ TaskStart(t)
  \/ ListFilesReturn(t)
  \/ LLMReturn(t)
  \/ PostReturn(t)
  \/ EngineCommentReturn(t)
  \/ ShellCommentReturn(t)

\* ------------------------------------------------------------------------
\* Inputs
\* ------------------------------------------------------------------------
ExamplePatch == <<HunkLine(20, 8), TextLine>>

File(name, changes, patch) == [filename |-> name, changes |-> changes, patch |-> patch]

FileA == File("src/a.ts", 12, ExamplePatch)

FileB == File("src/b.ts", 3, <<>>)

LockFile == File("package-lock.json", 40, <<TextLine>>)

BigFile == File("src/generated.ts", MAX_FILE_CHANGES, <<HunkLine(1, 3), TextLine>>)

ReplyEmpty == <<"[", "]">>

ReplyFenced == <<"FENCE", "txt", "NL", "[", "{medium@19}", "]", "NL", "FENCE">>

ReplyInline == <<"txt", "NL", "[", "{high@20}", "]">>

ReplyNoCategory == <<"[", "{nocategory}", "]">>

ReplySyntaxError == <<"[", "{high@20}", "txt", "]">>

\* errorLen: the length of the message of an error that the platform or the
\* provider raises
SinglePassEnv ==
  [multipass |-> FALSE, passes |-> 1, strategy |-> "union", providerOk |-> TRUE,
   errorLen |-> 40]

Strategies == {"union", "intersection", "majority", "concat"}

MaxPasses == 2

Envs ==
  {SinglePassEnv, [SinglePassEnv EXCEPT !.providerOk = FALSE]}
  \cup {[SinglePassEnv EXCEPT !.multipass = TRUE, !.passes = n, !.strategy = st] :
          n \in 1..MaxPasses, st \in Strategies}

NoUnit == [fn |-> "none", pc |-> "done"]

\* no ConfigLoader call is being watched
NoLoader == [pc |-> "none"]

NoScript == [tool |-> "none", pc |-> "done"]

\* ------------------------------------------------------------------------
\* Spec: the webhook shell with several deliveries for two pull requests
\* ------------------------------------------------------------------------
Init ==
  /\ processingPRs = {}
  /\ tasks = <<>>
  /\ budget = MaxDeliveries
  /\ dropped = 0
  /\ env \in {SinglePassEnv, [SinglePassEnv EXCEPT !.providerOk = FALSE]}
  /\ prFiles = [k \in PRKeys |-> IF k = "octo/app#1" THEN <<FileA>> ELSE <<LockFile>>]
  /\ llm = {ReplyEmpty, ReplyInline}
  /\ unit = NoUnit
  /\ script = NoScript
  /\ loader = NoLoader

Next ==
  \/ \E prKey \in PRKeys : Deliver(prKey)
  \/ \E t \in 1..MaxDeliveries : TaskStep(t)

Spec == Init /\ [][Next]_vars

\* Every callback the event loop holds is run, and every awaited call settles.
FairSpec == Spec /\ \A t \in 1..MaxDeliveries : WF_vars(TaskStep(t))

\* ------------------------------------------------------------------------
\* ReviewSpec: one delivery, every configuration, file list and reply
\* ------------------------------------------------------------------------
ReviewInit ==
  /\ processingPRs = {}
  /\ tasks = <<>>
  /\ budget = 1
  /\ dropped = 0
  /\ env \in Envs
  /\ prFiles \in {[k \in PRKeys |-> files] :
                    files \in {<<>>, <<LockFile, BigFile>>, <<FileA>>, <<LockFile, FileA, FileB>>}}
  /\ llm = {ReplyEmpty, ReplyFenced, ReplyInline, ReplyNoCategory, ReplySyntaxError}
  /\ unit = NoUnit
  /\ script = NoScript
  /\ loader = NoLoader

ReviewSpec == ReviewInit /\ [][Next]_vars

\* ------------------------------------------------------------------------
\* ErrorSpec: one delivery, with errors whose messages are short, exactly
\* as long as the shell's limit, and longer
\* ------------------------------------------------------------------------
ErrorLengths == {40, MaxErrorChars, MaxErrorChars + 1}

ErrorInit ==
  /\ processingPRs = {}
  /\ tasks = <<>>
  /\ budget = 1
  /\ dropped = 0
  /\ env \in {[e EXCEPT !.errorLen = n] :
               e \in {SinglePassEnv, [SinglePassEnv EXCEPT !.providerOk = FALSE]},
               n \in ErrorLengths}
  /\ prFiles \in {[k \in PRKeys |-> files] : files \in {<<FileA>>, <<LockFile, FileA, FileB>>}}
  /\ llm = {ReplyEmpty, ReplyInline, ReplyNoCategory}
  /\ unit = NoUnit
  /\ script = NoScript
  /\ loader = NoLoader

ErrorSpec == ErrorInit /\ [][Next]_vars

\* ------------------------------------------------------------------------
\* Patch pipeline (scripts/fixit): runPipeline in run mode
\* ------------------------------------------------------------------------
\* Two versions of runPipeline are in the repository.  fixit.ts arms a timer
\* that sets timedOut and kills the subprocess, and awaits the subprocess's
\* output and exit ("killTimer").  The earlier version races the output and
\* exit against a timer that rejects with Error("Timeout") ("race").
MaxStages == 3

PipelineVersions == {"killTimer", "race"}

TIMEOUT_MS(version) == IF version = "killTimer" THEN 270000 ELSE 300000

\* the run at the top of the for loop; pipeline holds `stages` stages
NewRun(version, stages) ==
  [tool |-> "fixit", version |-> version, stages |-> stages,
   pc |-> IF stages = 0 THEN "done" ELSE "spawn", index |-> 1,
   timedOut |-> FALSE, alive |-> {}, attempts |-> <<>>,
   ends |-> [k \in 1..stages |-> "none"],
   logs |-> [k \in 1..stages |-> "none"]]

\* writeFileSync(stage.logPath, ...)
WriteLog(run, text) == [run EXCEPT !.logs[run.index] = text]

\* the loop goes to its next iteration, or ends after the last stage
NextStage(run) ==
  [run EXCEPT !.index = @ + 1, !.timedOut = FALSE,
              !.pc = IF run.index + 1 > run.stages THEN "done" ELSE "spawn"]

\* the catch block for an error that is not Error("Timeout")
CatchError(run) ==
  IF run.version = "killTimer" THEN WriteLog(run, "error") ELSE run

\* mutant: the timer only sets the flag
TimeoutCallbackNoKill(run) == [run EXCEPT !.timedOut = TRUE]

\* the timer callback of fixit.ts: timedOut = true; process.kill()
TimeoutCallback(run) ==
  [run EXCEPT !.timedOut = TRUE,
              !.alive = @ \ {run.index},
              !.ends[run.index] = IF run.index \in run.alive THEN "killed" ELSE @]

\* the end of a loop iteration
AfterStage(run) == NextStage(run)

ScriptStep(run) ==
  /\ script' = run
  /\ UNCHANGED <<processingPRs, tasks, budget, dropped, env, prFiles, llm, unit, loader>>

\* spawn({cmd: ["aider", ...]}): the subprocess starts, or spawn throws
SpawnStage ==
  /\ script.tool = "fixit"
  /\ script.pc = "spawn"
  /\ LET tried == [script EXCEPT !.attempts = Append(@, script.index)]
     IN \/ ScriptStep([tried EXCEPT !.pc = "await", !.alive = @ \cup {script.index}])
        \/ ScriptStep(AfterStage(CatchError([tried EXCEPT !.ends[script.index] = "spawnFailed"])))

\* a subprocess ends by itself, with exit code 0 or not
SubprocessExit ==
  /\ script.tool = "fixit"
  /\ \E k \in script.alive, code \in {"exit0", "exit1"} :
       ScriptStep([script EXCEPT !.alive = @ \ {k}, !.ends[k] = code])

\* the timer of the current stage fires before the awaits have resumed
StageTimeout ==
  /\ script.tool = "fixit"
  /\ script.pc = "await"
  /\ ~script.timedOut
  /\ IF script.version = "killTimer"
       THEN ScriptStep(TimeoutCallback(script))
       ELSE ScriptStep(AfterStage(WriteLog(script, "timeout")))

\* stdout, stderr and exited of the current subprocess have resolved
StageResume ==
  /\ script.tool = "fixit"
  /\ script.pc = "await"
  /\ script.index \notin script.alive
  /\ ScriptStep(AfterStage(WriteLog(script, IF script.timedOut THEN "timeout" ELSE "output")))

PipelineInit ==
  /\ processingPRs = {}
  /\ tasks = <<>>
  /\ budget = 0
  /\ dropped = 0
  /\ env = SinglePassEnv
  /\ prFiles = [k \in PRKeys |-> <<>>]
  /\ llm = {}
  /\ unit = NoUnit
  /\ loader = NoLoader
  /\ script \in {NewRun(v, n) : v \in PipelineVersions, n \in 0..MaxStages}

runPipeline == SpawnStage \/ SubprocessExit \/ StageTimeout \/ StageResume

PipelineSpec == PipelineInit /\ [][runPipeline]_vars

\* ------------------------------------------------------------------------
\* Fix tool (scripts/smartfix/mrfixit.ts): main from the rules engine on
\* ------------------------------------------------------------------------
\* groupsToProcess is a list of error groups, each written as "rule" (some
\* rule of the rules engine matches it) or "unknown"; a group is named by its
\* position in the list.
MaxGroups == 3

\* The file holds two versions of main. "defaults" (lines 155-213) takes its
\* configuration from DEFAULTS, calls the LLM for the unknown groups when
\* the analyzer setting is not 'rules', and writes both artifacts. "flags"
\* (lines 436-524) takes it from the command line, has no LLM call, and
\* writes the JSON artifact only for --format json.
FixVersions == {"defaults", "flags"}

\* the values of Config.analyzer
Analyzers == {"rules", "llm", "hybrid"}

\* the values of Config.outputFormat
OutputFormats == {"markdown", "json", "aider"}

analyzeWithRules(groups) ==
  [fixes |-> [j \in 1..Cardinality({i \in 1..Len(groups) : groups[i] = "rule"}) |->
                [group |-> CHOOSE i \in 1..Len(groups) :
                             /\ groups[i] = "rule"
                             /\ Cardinality({h \in 1..i : groups[h] = "rule"}) = j,
                 description |-> "rule"]],
   unknown |-> [j \in 1..Cardinality({i \in 1..Len(groups) : groups[i] = "unknown"}) |->
                  [group |-> CHOOSE i \in 1..Len(groups) :
                               /\ groups[i] = "unknown"
                               /\ Cardinality({h \in 1..i : groups[h] = "unknown"}) = j,
                   fix |-> "none"]]]

\* the entries of the JSON plan and the blocks of the text report: one for
\* each element of the list it is given
generateAiderOutput(fixes) ==
  [j \in 1..Len(fixes) |-> [group |-> fixes[j].group, description |-> fixes[j].description]]

NewFixRun(version, analyzer, outputFormat, groups) ==
  [tool |-> "mrfixit", version |-> version, analyzer |-> analyzer,
   outputFormat |-> outputFormat, groups |-> groups, pc |-> "rules",
   fixes |-> <<>>, unknown |-> <<>>, i |-> 1, handed |-> <<>>,
   written |-> {}, json |-> <<>>, text |-> <<>>]

\* analyzeWithRules, then the test that guards the loop over result.unknown
AnalyzeGroups ==
  /\ script.tool = "mrfixit"
  /\ script.pc = "rules"
  /\ LET result == analyzeWithRules(script.groups)
     IN ScriptStep([script EXCEPT
          !.fixes = result.fixes, !.unknown = result.unknown,
          !.pc = IF /\ script.version = "defaults"
                      /\ Len(result.unknown) > 0
                      /\ script.analyzer # "rules"
                   THEN "awaitLLM" ELSE "write"])

\* callLLM for result.unknown[i] settles: the reply is stored on the unknown
\* group, or the error is logged
LLMSettles ==
  /\ script.tool = "mrfixit"
  /\ script.pc = "awaitLLM"
  /\ \E outcome \in {"ok", "failed", "timeout"} :
       ScriptStep([script EXCEPT
         !.unknown[script.i].fix = IF outcome = "ok" THEN "suggestion" ELSE @,
         !.handed = Append(@, [group |-> script.unknown[script.i].group,
                               outcome |-> outcome]),
         !.i = @ + 1,
         !.pc = IF script.i + 1 > Len(script.unknown) THEN "write" ELSE "awaitLLM"])

\* the Bun.write calls, both from result.fixes
WriteOutput ==
  /\ script.tool = "mrfixit"
  /\ script.pc = "write"
  /\ ScriptStep([script EXCEPT
       !.written = IF script.version = "defaults" \/ script.outputFormat = "json"
                     THEN {"json", "text"} ELSE {"text"},
       !.json = IF script.version = "defaults" \/ script.outputFormat = "json"
                  THEN generateAiderOutput(script.fixes) ELSE <<>>,
       !.text = generateAiderOutput(script.fixes),
       !.pc = "done"])

FixInit ==
  /\ processingPRs = {}
  /\ tasks = <<>>
  /\ budget = 0
  /\ dropped = 0
  /\ env = SinglePassEnv
  /\ prFiles = [k \in PRKeys |-> <<>>]
  /\ llm = {}
  /\ unit = NoUnit
  /\ loader = NoLoader
  /\ script \in {NewFixRun(v, a, f, g) :
                   v \in FixVersions, a \in Analyzers, f \in OutputFormats,
                   g \in UNION {[1..n -> {"rule", "unknown"}] : n \in 1..MaxGroups}}

main == AnalyzeGroups \/ LLMSettles \/ WriteOutput

FixSpec == FixInit /\ [][main]_vars

\* ------------------------------------------------------------------------
\* Configuration loader (part_003: ConfigLoader with agents;
\* config/config-loader.ts: ConfigLoader with getLLMProvider)
\* ------------------------------------------------------------------------
\* A model string is a sequence of tokens, ":" being the colon:
\* <<"qwen", ":", "14b">> is 'qwen2.5-coder:14b' and
\* <<"ollama", ":", "qwen", ":", "14b">> is 'ollama:qwen2.5-coder:14b'.
MaxLoaderCalls == 3

\* llm.providers of the configuration file: the local provider, two cloud
\* providers, and a provider no adapter exists for
ConfiguredProviders == {"ollama", "anthropic", "google", "acme"}

\* config.llm.providers[providerName]. The models list of the local provider
\* varies with the configuration; the others list 'llama'.
ProviderConfig(config, providerName) ==
  IF Len(providerName) = 1 /\ providerName[1] \in ConfiguredProviders
    THEN [found |-> TRUE,
          models |-> IF providerName[1] = "ollama" THEN config.models ELSE {<<"llama">>}]
    ELSE [found |-> FALSE, models |-> {}]

checkModelAvailabilityAlways(modelName, providerConfig) == TRUE

checkModelAvailability(modelName, providerConfig) == modelName \in providerConfig.models

\* part_003: the switch over the provider name; keySet says whether the
\* API-key environment variable of the provider holds a non-empty value
instantiateProvider(providerName, modelName, keySet) ==
  CASE providerName = <<"ollama">> ->
         [threw |-> FALSE, error |-> "none",
          provider |-> [class |-> "OllamaProvider", model |-> modelName, apiKey |-> FALSE]]
    [] providerName \in {<<"anthropic">>, <<"google">>} ->
         IF ~keySet THEN [threw |-> TRUE, error |-> "api key not set", provider |-> Null]
         ELSE [threw |-> FALSE, error |-> "none",
               provider |-> [class |-> IF providerName = <<"anthropic">>
                                         THEN "AnthropicProvider" ELSE "GeminiProvider",
                             model |-> modelName, apiKey |-> TRUE]]
    [] OTHER -> [threw |-> TRUE, error |-> "Unknown provider", provider |-> Null]

\* part_003: createProvider after this.load() and getAgent have returned
createProvider(config, agentModel, keySet) ==
  LET \* String.prototype.split(':')
      RECURSIVE Split(_)
      Split(s) ==
        IF IndexOf(s, ":") = 0 THEN <<s>>
        ELSE <<SubSeq(s, 1, IndexOf(s, ":") - 1)>>
               \o Split(SubSeq(s, IndexOf(s, ":") + 1, Len(s)))
      \* Array.prototype.join(':')
      RECURSIVE Join(_)
      Join(ps) ==
        IF Len(ps) = 0 THEN <<>>
        ELSE IF Len(ps) = 1 THEN ps[1]
        ELSE ps[1] \o <<":">> \o Join(Tail(ps))
      parts == Split(agentModel)
      hasProviderPrefix == Len(parts) > 1
      providerName == IF hasProviderPrefix THEN parts[1] ELSE <<config.default_provider>>
      requestedModelName == IF hasProviderPrefix THEN Join(Tail(parts)) ELSE agentModel
      providerConfig == ProviderConfig(config, providerName)
      available == checkModelAvailability(requestedModelName, providerConfig)
      finalModelName == IF available THEN requestedModelName ELSE config.default_model
      warnings == IF available THEN 0
                  ELSE IF checkModelAvailability(finalModelName, providerConfig) THEN 1
                  ELSE 2
  IN [resolved |-> [provider |-> providerName, model |-> requestedModelName]]
       @@ IF ~providerConfig.found
            THEN [threw |-> TRUE, error |-> "Provider not found", provider |-> Null,
                  warnings |-> 0]
            ELSE [warnings |-> warnings]
                   @@ instantiateProvider(providerName, finalModelName, keySet)

\* config-loader.ts: ProviderMap has no 'google'; the key is read from the
\* environment and handed to the constructor as it is
createProviderInstance(config, providerName, model, keySet) ==
  IF ~ProviderConfig(config, providerName).found
    THEN [threw |-> TRUE, error |-> "Provider not found", provider |-> Null]
  ELSE IF providerName \notin {<<"ollama">>, <<"anthropic">>}
    THEN [threw |-> TRUE, error |-> "Unknown provider", provider |-> Null]
  ELSE [threw |-> FALSE, error |-> "none",
        provider |-> [class |-> IF providerName = <<"ollama">>
                                  THEN "OllamaProvider" ELSE "ClaudeProvider",
                      model |-> model,
                      apiKey |-> providerName # <<"ollama">> /\ keySet]]

\* config-loader.ts: a prefix counts only when it names a configured provider
getLLMProvider(config, model, keySet) ==
  LET targetModel == IF model = <<>> THEN config.default_model ELSE model
      prefixed == Len(targetModel) >= 2 /\ targetModel[2] = ":"
                    /\ targetModel[1] \in ConfiguredProviders
      providerName == IF prefixed THEN <<targetModel[1]>> ELSE <<config.default_provider>>
      actualModel == IF prefixed THEN SubSeq(targetModel, 3, Len(targetModel))
                     ELSE targetModel
  IN [resolved |-> [provider |-> providerName, model |-> actualModel], warnings |-> 0]
       @@ createProviderInstance(config, providerName, actualModel, keySet)

\* part_003: load. The file on disk is "v1" or "v2" (two readable
\* configurations), "invalid" (not parsable) or "missing"; out is the object
\* returned or the error thrown, loaded says that some load has succeeded.
load(l) ==
  IF l.file = "missing"
    THEN [l EXCEPT !.out = [op |-> "load", threw |-> TRUE, error |-> "load", value |-> "none"]]
  ELSE IF l.cache # "null"
    THEN [l EXCEPT !.out = [op |-> "load", threw |-> FALSE, error |-> "none", value |-> l.cache]]
  ELSE IF l.file = "invalid"
    THEN [l EXCEPT !.reads = @ + 1,
                   !.out = [op |-> "load", threw |-> TRUE, error |-> "load", value |-> "none"]]
  ELSE [l EXCEPT !.reads = @ + 1, !.cache = l.file, !.loaded = TRUE,
                 !.out = [op |-> "load", threw |-> FALSE, error |-> "none", value |-> l.file]]

\* One call on the loader, or one change of the file: load; createProvider
\* (part_003, from its call of this.load()); getLLMProvider (config-loader.ts,
\* on the configuration read by the constructor); the configuration file
\* rewritten, damaged or removed. An agent's model field is a model name,
\* bare or behind the name of a provider.
LoaderCall ==
  LET names == {<<"llama">>, <<"14b">>, <<"qwen", ":", "14b">>}
      ModelStrings ==
        names \cup {<<p, ":">> \o m : p \in ConfiguredProviders \cup {"ghost"}, m \in names}
      step(l) ==
        /\ loader.pc = "ready"
        /\ loader.calls < MaxLoaderCalls
        /\ loader' = [l EXCEPT !.calls = loader.calls + 1]
        /\ UNCHANGED <<processingPRs, tasks, budget, dropped, env, prFiles, llm, unit, script>>
  IN \/ step(load(loader))
     \/ \E m \in ModelStrings :
          step([load(loader) EXCEPT
            !.out = IF load(loader).out.threw
                      THEN [op |-> "createProvider", arg |-> m, threw |-> TRUE,
                            error |-> "load", provider |-> Null]
                      ELSE [op |-> "createProvider", arg |-> m]
                             @@ createProvider(loader.config, m, loader.keySet)])
     \/ \E m \in ModelStrings \cup {<<>>} :
          step([loader EXCEPT
            !.out = [op |-> "getLLMProvider", arg |-> m]
                      @@ getLLMProvider(loader.config, m, loader.keySet)])
     \/ \E f \in {"v1", "v2", "invalid", "missing"} \ {loader.file} :
          step([loader EXCEPT !.file = f, !.out = [op |-> "none", error |-> "none"]])

LoaderInit ==
  /\ processingPRs = {} /\ tasks = <<>> /\ budget = 0 /\ dropped = 0
  /\ env = SinglePassEnv /\ prFiles = [k \in PRKeys |-> <<>>] /\ llm = {}
  /\ unit = NoUnit /\ script = NoScript
  /\ loader \in {[pc |-> "ready", file |-> "v1", cache |-> "null", loaded |-> FALSE,
                  reads |-> 0, calls |-> 0, out |-> [op |-> "none", error |-> "none"],
                  config |-> c, keySet |-> k] :
                   c \in [default_provider : ConfiguredProviders,
                          default_model : {<<"llama">>, <<"qwen", ":", "14b">>},
                          models : SUBSET {<<"llama">>, <<"qwen", ":", "14b">>}],
                   k \in BOOLEAN}

LoaderSpec == LoaderInit /\ [][LoaderCall]_vars

\* ------------------------------------------------------------------------
\* Pure functions, each called once on an input drawn at the start
\* ------------------------------------------------------------------------
SeqsUpTo(S, n) == UNION {[1..k -> S] : k \in 0..n}

\* File lists are written as three runs of files of one kind each.
MaxRun == 3

FileKinds == {"ok", "edge", "large", "ignored", "ignoredLarge"}

RunLens == (0..MaxRun) \cup {MAX_FILES, MAX_FILES + 1}

FileOfKind(kind, i) ==
  CASE kind = "ok" -> File("src/f" \o ToString(i) \o ".ts", 10, ExamplePatch)
    [] kind = "edge" -> File("src/f" \o ToString(i) \o ".ts", MAX_FILE_CHANGES - 1, ExamplePatch)
    [] kind = "large" -> File("src/f" \o ToString(i) \o ".ts", MAX_FILE_CHANGES, ExamplePatch)
    [] kind = "ignored" -> File("dist/f" \o ToString(i) \o ".min.js", 10, <<TextLine>>)
    [] kind = "ignoredLarge" -> File("pkg" \o ToString(i) \o "/yarn.lock", 5 * MAX_FILE_CHANGES, <<>>)

RECURSIVE RunKinds(_)
RunKinds(shape) ==
  IF shape = <<>> THEN <<>>
  ELSE [i \in 1..Head(shape).n |-> Head(shape).kind] \o RunKinds(Tail(shape))

MakeFiles(shape) ==
  LET kinds == RunKinds(shape)
  IN [i \in 1..Len(kinds) |-> FileOfKind(kinds[i], i)]

FilterInputs ==
  {MakeFiles(<<r1, r2, r3>>) :
     r1 \in [kind : FileKinds, n : RunLens],
     r2 \in [kind : {"ok", "ignored", "large"}, n : RunLens],
     r3 \in [kind : {"large", "edge"}, n : 0..MaxRun]}

\* Findings handed to postReview, and the patch of src/a.ts they are checked
\* against; src/b.ts has an empty patch and src/zz.ts is not a reviewed file.
MaxPostFindings == 2

PostLines == {NoLine, NullLine, Num(0), Num(19), Num(20), Num(27), Num(28)}

PostFindingsUniverse ==
  {Finding("high", "bug", "src/a.ts", l) : l \in PostLines}
  \cup {Finding(sev, "security", "src/a.ts", l) :
          sev \in {"medium", "low", Undefined, NonString}, l \in {NoLine, Num(21)}}
  \cup {Finding("medium", Undefined, "src/a.ts", Num(20))}
  \cup {Finding("medium", "bug", file, Num(20)) : file \in {"src/b.ts", "src/zz.ts"}}

PostPatches ==
  {ExamplePatch,
   <<TextLine>>,
   <<ShortHunkLine(20), TextLine>>,
   <<HunkLine(1, 3), TextLine, HunkLine(20, 8), TextLine>>}

PostInputs ==
  {[files |-> <<File("src/a.ts", 12, patch), FileB>>,
    stats |-> [total |-> 3, reviewed |-> 2, ignored |-> 1, tooLarge |-> 0],
    findings |-> fs] :
     patch \in PostPatches, fs \in SeqsUpTo(PostFindingsUniverse, MaxPostFindings)}

\* Passes handed to mergeFindings: a list of findings cut into passes.
MaxMergeFindings == 4

MergePassCounts == {1, 2, 3}

MergeUniverse ==
  {Finding("high", "bug", "a.ts", Num(1)),
   Finding("medium", "bug", "a.ts", Num(1)),
   Finding("high", "bug", "a.ts", Num(3)),
   Finding("medium", "security", "b.ts", NoLine)}

\* the passes of a flat list cut after the positions cuts[1] <= cuts[2] <= ...
CutRuns(flat, cuts) ==
  [r \in 1..(Len(cuts) + 1) |->
     SubSeq(flat,
            (IF r = 1 THEN 0 ELSE cuts[r - 1]) + 1,
            IF r = Len(cuts) + 1 THEN Len(flat) ELSE cuts[r])]

MergeInputs ==
  {CutRuns(c.flat, c.cuts) :
     c \in {x \in [flat : SeqsUpTo(MergeUniverse, MaxMergeFindings),
                   cuts : UNION {[1..(n - 1) -> 0..MaxMergeFindings] : n \in MergePassCounts}] :
              /\ \A i \in 1..Len(x.cuts) : x.cuts[i] <= Len(x.flat)
              /\ \A i \in 1..(Len(x.cuts) - 1) : x.cuts[i] <= x.cuts[i + 1]}}

Idle ==
  /\ processingPRs = {}
  /\ tasks = <<>>
  /\ budget = 0
  /\ dropped = 0
  /\ env = SinglePassEnv
  /\ prFiles = [k \in PRKeys |-> <<>>]
  /\ llm = {}
  /\ script = NoScript
  /\ loader = NoLoader

Call(fn, arg) == [fn |-> fn, pc |-> "call", arg |-> arg, out |-> NoUnit]

Return(out) ==
  /\ unit.pc = "call"
  /\ unit' = [unit EXCEPT !.pc = "done", !.out = out]
  /\ UNCHANGED <<processingPRs, tasks, budget, dropped, env, prFiles, llm, script, loader>>

\* FilterSpec: filterFiles on every file list of FilterInputs
CallFilterFiles ==
  /\ unit.fn = "filterFiles"
  /\ Return(filterFiles(unit.arg))

FilterInit == Idle /\ unit \in {Call("filterFiles", a) : a \in FilterInputs}

FilterSpec == FilterInit /\ [][CallFilterFiles]_vars

\* PostSpec: postReview on every input of PostInputs
CallPostReview ==
  /\ unit.fn = "postReview"
  /\ Return(postReview(unit.arg.files, unit.arg.stats, unit.arg.findings))

PostInit == Idle /\ unit \in {Call("postReview", a) : a \in PostInputs}

PostSpec == PostInit /\ [][CallPostReview]_vars

\* MergeSpec: mergeFindings on every list of passes of MergeInputs, under
\* every value of PR_REVIEW_MERGE_STRATEGY: the three strategies, a word
\* that names none of them, the empty string, and Undefined when it is not set
CallMergeFindings ==
  /\ unit.fn = "mergeFindings"
  /\ unit.pc = "call"
  /\ \E st \in Strategies \cup {"", Undefined} :
       /\ unit' = [unit EXCEPT !.pc = "done", !.strategy = st,
                               !.out = mergeFindings(unit.arg, MergeStrategy(st))]
       /\ UNCHANGED <<processingPRs, tasks, budget, dropped, env, prFiles, llm, script, loader>>

MergeInit ==
  /\ Idle
  /\ unit \in {[fn |-> "mergeFindings", pc |-> "call", arg |-> a, strategy |-> "unset",
                out |-> NoUnit] : a \in MergeInputs}

MergeSpec == MergeInit /\ [][CallMergeFindings]_vars

\* ParseSpec: parseReviewResponse on every reply of at most MaxReplyLen tokens
MaxReplyLen == 5

ReplyTokens == {"FENCE", "NL", "[", "]", ",", "txt", "{high@20}"}

ReplyInputs == SeqsUpTo(ReplyTokens, MaxReplyLen)

CallParseReviewResponse ==
  /\ unit.fn = "parseReviewResponse"
  /\ Return(parseReviewResponse(unit.arg))

ParseInit == Idle /\ unit \in {Call("parseReviewResponse", a) : a \in ReplyInputs}

ParseSpec == ParseInit /\ [][CallParseReviewResponse]_vars

\* FuzzySpec: mergeFindings on passes whose findings lie near each other:
\* lines 1, 3 and 4 of one file, a finding without a line, and findings that
\* differ from these in category or in file only
MaxFuzzyFindings == 3

FuzzyUniverse ==
  {Finding("high", "bug", "a.ts", Num(1)),
   Finding("medium", "bug", "a.ts", Num(3)),
   Finding("high", "bug", "a.ts", Num(4)),
   Finding("medium", "bug", "a.ts", NoLine),
   Finding("high", "security", "a.ts", Num(3)),
   Finding("high", "bug", "b.ts", Num(3))}

FuzzyInputs ==
  {CutRuns(c.flat, c.cuts) :
     c \in {x \in [flat : SeqsUpTo(FuzzyUniverse, MaxFuzzyFindings),
                   cuts : UNION {[1..(n - 1) -> 0..MaxFuzzyFindings] : n \in MergePassCounts}] :
              /\ \A i \in 1..Len(x.cuts) : x.cuts[i] <= Len(x.flat)
              /\ \A i \in 1..(Len(x.cuts) - 1) : x.cuts[i] <= x.cuts[i + 1]}}

FuzzyInit ==
  /\ Idle
  /\ unit \in {[fn |-> "mergeFindings", pc |-> "call", arg |-> a, strategy |-> "unset",
                out |-> NoUnit] : a \in FuzzyInputs}

FuzzySpec == FuzzyInit /\ [][CallMergeFindings]_vars

\* GroupSpec: groupErrors on every list of at most MaxErrors parsed errors,
\* and on a log of 15 TS2835 errors followed by 5 TS2834 errors. An error is
\* written as its code and its message.
MaxErrors == 4

GroupKeyPatternOnly(code, pattern) == pattern

\* const key = `${error.code}:${pattern}`
GroupKey(code, pattern) == code \o ":" \o pattern

groupErrors(errors) ==
  LET pattern(e) ==
        CASE e.code \in {"TS2835", "TS2834"} -> "Missing file extension in import"
          [] e.code = "TS7006" -> "Implicit any type"
          [] e.code = "TS2307" -> "Cannot find module"
          [] e.code = "TS7016" -> "Missing type declarations"
          [] e.code = "TS2339" -> "Property does not exist"
          [] e.code = "TS2304" -> "Cannot find name"
          [] OTHER -> e.message
      key(e) == GroupKey(e.code, pattern(e))
      \* the Map, in insertion order
      RECURSIVE walk(_, _)
      walk(i, groups) ==
        IF i > Len(errors) THEN groups
        ELSE LET e == errors[i]
                 at == {j \in 1..Len(groups) : groups[j].key = key(e)}
             IN IF at = {}
                  THEN walk(i + 1, Append(groups,
                         [key |-> key(e), code |-> e.code, pattern |-> pattern(e),
                          errors |-> <<e>>, count |-> 1]))
                  ELSE LET j == CHOOSE j \in at : TRUE
                       IN walk(i + 1, [groups EXCEPT ![j].errors = Append(@, e),
                                                     ![j].count = @ + 1])
      \* sort((a, b) => b.count - a.count), which is stable
      RECURSIVE sort(_, _)
      sort(i, sorted) ==
        IF i > Len(walk(1, <<>>)) THEN sorted
        ELSE LET g == walk(1, <<>>)[i]
                 before == Cardinality({j \in 1..Len(sorted) : sorted[j].count >= g.count})
             IN sort(i + 1, SubSeq(sorted, 1, before) \o <<g>>
                              \o SubSeq(sorted, before + 1, Len(sorted)))
      values == sort(1, <<>>)
  IN [j \in 1..Len(values) |->
        [code |-> values[j].code, pattern |-> values[j].pattern,
         errors |-> values[j].errors, count |-> values[j].count]]

ErrorInputs ==
  SeqsUpTo({[code |-> "TS2835", message |-> "m1"], [code |-> "TS2834", message |-> "m1"],
            [code |-> "TS7006", message |-> "m1"], [code |-> "TS1005", message |-> "m1"],
            [code |-> "TS1005", message |-> "m2"]}, MaxErrors)
    \cup {[i \in 1..20 |-> [code |-> IF i <= 15 THEN "TS2835" ELSE "TS2834",
                              message |-> "m1"]]}

CallGroupErrors ==
  /\ unit.fn = "groupErrors"
  /\ Return(groupErrors(unit.arg))

GroupInit == Idle /\ unit \in {Call("groupErrors", a) : a \in ErrorInputs}

GroupSpec == GroupInit /\ [][CallGroupErrors]_vars

\* ========================================================================
\* Claims
\* ========================================================================
TaskIds == 1..Len(tasks)

\* C1: every accepted delivery whose file listing returned ends with exactly
\* one terminal output posted on the pull request (a no-issues comment, a
\* findings summary or an error comment), also when filtering leaves no file.
C1_OneTerminalOutput ==
  \A t \in TaskIds :
    (tasks[t].pc = "done" /\ tasks[t].listed) => Len(tasks[t].posts) = 1

\* C2: a delivery whose key belongs to a task that is still scheduled or
\* running starts no review, so at most one task per key is scheduled or
\* running at any time.
C2_AtMostOneTaskPerKey ==
  /\ [](\A k \in PRKeys :
          Cardinality({t \in TaskIds : tasks[t].key = k /\ Active(tasks[t])}) <= 1)
  /\ [][Len(tasks') > Len(tasks) =>
          \A t \in TaskIds :
            Active(tasks[t]) => tasks[t].key # tasks'[Len(tasks')].key]_vars

C2_Witness ==
  /\ dropped > 0
  /\ \E t \in TaskIds : tasks[t].pc = "awaitLLM"

\* C3: every task removes its key from the set exactly once, when it ends,
\* whatever the outcome; the set holds exactly the keys of the tasks that have
\* not ended, and every key in the set is eventually absent from it.
C3_KeyReleasedOnce ==
  /\ [](/\ \A t \in TaskIds :
             IF Active(tasks[t])
               THEN tasks[t].released = 0 /\ tasks[t].key \in processingPRs
               ELSE tasks[t].released = 1
        /\ processingPRs = {tasks[t].key : t \in {u \in TaskIds : Active(tasks[u])}})
  /\ \A k \in PRKeys : (k \in processingPRs) ~> (k \notin processingPRs)

\* a task ended after its error comment failed to post, and a later delivery
\* for the same pull request was accepted
C3_Witness ==
  \E t, u \in TaskIds :
    /\ t < u
    /\ tasks[t].key = tasks[u].key
    /\ tasks[t].pc = "done" /\ tasks[t].posts = <<>> /\ tasks[t].faulted
    /\ tasks[u].pc = "awaitListFiles"

PassCalls(task, p) == SelectSeq(task.calls, LAMBDA c : c.pass = p)

CallFiles(calls) == [j \in 1..Len(calls) |-> calls[j].file]

CallFindings(calls) == Flat([j \in 1..Len(calls) |-> calls[j].findings])

\* C4: within a pass a failed model call does not stop the pass: every file
\* of the filtered list is sent to the model in order, and the pass returns
\* the findings of the calls that succeeded, concatenated in file order.
C4_PassSurvivesFailure ==
  \A t \in TaskIds :
    LET task == tasks[t]
        n == Len(task.files)
    IN task.pass > 0 =>
         /\ \A p \in 1..task.pass :
              CallFiles(PassCalls(task, p)) =
                [j \in 1..(IF p < task.pass \/ task.merged THEN n ELSE task.i) |-> j]
         /\ task.allFindings = CallFindings(PassCalls(task, task.pass))
         /\ \A p \in 1..Len(task.allRuns) :
              task.allRuns[p] = CallFindings(PassCalls(task, p))

C4_Witness ==
  \E t \in TaskIds :
    /\ tasks[t].merged
    /\ Len(tasks[t].calls) = 2
    /\ tasks[t].calls[1].state = "threw"
    /\ tasks[t].calls[2].state = "parsed"
    /\ tasks[t].calls[2].findings # <<>>
    /\ tasks[t].allFindings = tasks[t].calls[2].findings

\* C5: no reply text makes the review fail: when the platform and the model
\* backend never fail, the review does not end with an error comment.
C5_ReplyNeverFailsReview ==
  \A t \in TaskIds :
    (tasks[t].pc = "done" /\ ~tasks[t].faulted) =>
      /\ "engineError" \notin Range(tasks[t].posts)
      /\ "shellError" \notin Range(tasks[t].posts)

\* pass-major, file-list order
PassMajor(passes, n) ==
  [j \in 1..(passes * n) |-> [pass |-> ((j - 1) \div n) + 1, file |-> ((j - 1) % n) + 1]]

PostDone == unit.fn = "postReview" /\ unit.pc = "done"

\* the lines a '@@ -a,b +c,d @@' header of the patch covers: c <= L < c + d
CoveredByHeader(patch, L) ==
  \E j \in 1..Len(patch) :
    /\ patch[j].kind = "hunk" /\ patch[j].oldCount /\ patch[j].newCount
    /\ patch[j].c <= L
    /\ L < patch[j].c + patch[j].d

\* C7: every inline comment of a structured review refers to a reviewed file
\* with a non-empty patch and to a line L > 0 that a hunk header of that patch
\* covers; under '@@ -10,5 +20,8 @@' lines 20..27 are accepted, 19 and 28 are
\* not, and a patch without a hunk header accepts no line.
C7_InlineCommentsInHunk ==
  PostDone =>
    LET files == unit.arg.files
        findings == unit.arg.findings
        comments == unit.out.request.comments
        commented(f) ==
          \E j \in 1..Len(comments) :
            comments[j].path = f.filename /\ comments[j].line = f.line.v
    IN /\ unit.out.request.api # "createReview" => comments = <<>>
       /\ \A j \in 1..Len(comments) :
            \E k \in 1..Len(files) :
              /\ files[k].filename = comments[j].path
              /\ files[k].patch # <<>>
              /\ comments[j].line > 0
              /\ CoveredByHeader(files[k].patch, comments[j].line)
       /\ (files[1].patch = ExamplePatch /\ ~unit.out.threw) =>
            \A i \in 1..Len(findings) :
              (findings[i].filename = "src/a.ts" /\ findings[i].line.t = "num") =>
                (commented(findings[i]) <=> findings[i].line.v \in 20..27)
       /\ (\A k \in 1..Len(files) :
             \A j \in 1..Len(files[k].patch) : files[k].patch[j].kind # "hunk") =>
            comments = <<>>

\* a review with an inline comment on line 27 whose finding on line 28 was left out
C7_Witness ==
  /\ PostDone
  /\ unit.arg.files[1].patch = ExamplePatch
  /\ unit.out.request.api = "createReview"
  /\ Len(unit.out.request.comments) = 1
  /\ unit.out.request.comments[1].line = 27
  /\ \E i \in 1..Len(unit.arg.findings) : unit.arg.findings[i].line = Num(28)

\* C8: with at least one finding postReview makes exactly one platform call:
\* a plain issue comment with the summary body when no inline comment passes
\* validation, otherwise a structured review whose disposition is
\* REQUEST_CHANGES exactly when some finding has severity high, else COMMENT.
C8_PostingDecision ==
  (PostDone /\ unit.arg.findings # <<>>) =>
    LET files == unit.arg.files
        findings == unit.arg.findings
        request == unit.out.request
        anyValid ==
          \E i \in 1..Len(findings) :
            /\ findings[i].line.t = "num" /\ findings[i].line.v > 0
            /\ \E k \in 1..Len(files) :
                 /\ files[k].filename = findings[i].filename
                 /\ CoveredByHeader(files[k].patch, findings[i].line.v)
        anyHigh == \E i \in 1..Len(findings) : findings[i].severity = "high"
    IN IF ~anyValid
         THEN request.api = "createComment" /\ request.body.found = Len(findings)
         ELSE /\ request.api = "createReview"
              /\ request.event = (IF anyHigh THEN "REQUEST_CHANGES" ELSE "COMMENT")

FilterDone == unit.fn = "filterFiles" /\ unit.pc = "done"

\* C9: filterFiles returns, in the original order, the first MAX_FILES of the
\* files that match no ignore pattern and have fewer than MAX_FILE_CHANGES
\* changes; total counts the input files, ignored those matching a pattern,
\* tooLarge the other files with changes >= MAX_FILE_CHANGES, reviewed the
\* files returned.  20 files with 3 ignored and 2 too large give 15 files and
\* {total: 20, reviewed: 15, ignored: 3, tooLarge: 2}.
C9_FilterFiles ==
  FilterDone =>
    LET files == unit.arg
        result == unit.out.result
        stats == unit.out.stats
        Ign == {i \in 1..Len(files) :
                  \E pattern \in IgnorePatterns : PatternTest(pattern, files[i].filename)}
        Big == {i \in (1..Len(files)) \ Ign : files[i].changes >= 800}
        Keep == (1..Len(files)) \ (Ign \cup Big)
        nth(j) == CHOOSE i \in Keep : Cardinality({k \in Keep : k <= i}) = j
    IN /\ Len(result) = (IF Cardinality(Keep) < 15 THEN Cardinality(Keep) ELSE 15)
       /\ \A j \in 1..Len(result) : result[j] = files[nth(j)]
       /\ stats = [total |-> Len(files), reviewed |-> Len(result),
                   ignored |-> Cardinality(Ign), tooLarge |-> Cardinality(Big)]
       /\ (Len(files) = 20 /\ Cardinality(Ign) = 3 /\ Cardinality(Big) = 2) =>
            (Len(result) = 15 /\
             stats = [total |-> 20, reviewed |-> 15, ignored |-> 3, tooLarge |-> 2])

C9_Witness ==
  /\ FilterDone
  /\ Len(unit.arg) = 20
  /\ unit.out.stats = [total |-> 20, reviewed |-> 15, ignored |-> 3, tooLarge |-> 2]
  /\ Len(unit.out.result) = 15

MergeDone == unit.fn = "mergeFindings" /\ unit.pc = "done"

\* C10: under the union strategy the merged list holds exactly one finding
\* for each filename:line:category key that occurs in some pass, namely the
\* first one in pass order, and nothing else; a pass merged with itself gives
\* the distinct findings of that pass.
C10_UnionMerge ==
  (MergeDone /\ unit.strategy = "union") =>
    LET runs == unit.arg
        all == Flat(runs)
        out == unit.out
        key(f) == TemplateStr(f.filename) \o ":" \o LineStr(f.line) \o ":"
                    \o TemplateStr(f.category)
        first(k) == CHOOSE i \in 1..Len(all) :
                      key(all[i]) = k /\ \A j \in 1..(i - 1) : key(all[j]) # k
    IN /\ \A i, j \in 1..Len(out) : key(out[i]) = key(out[j]) => i = j
       /\ \A i \in 1..Len(all) : \E j \in 1..Len(out) : key(out[j]) = key(all[i])
       /\ \A j \in 1..Len(out) :
            /\ \E i \in 1..Len(all) : key(all[i]) = key(out[j])
            /\ out[j] = all[first(key(out[j]))]
       /\ (Len(runs) = 2 /\ runs[1] = runs[2]) =>
            /\ Range(out) \subseteq Range(runs[1])
            /\ Len(out) = Cardinality({key(runs[1][i]) : i \in 1..Len(runs[1])})

\* a pass holding two findings with one key, merged with itself
C10_Witness ==
  /\ MergeDone /\ unit.strategy = "union"
  /\ Len(unit.arg) = 2
  /\ unit.arg[1] = unit.arg[2]
  /\ Len(unit.arg[1]) = 2
  /\ unit.arg[1][1] # unit.arg[1][2]
  /\ unit.out = <<unit.arg[1][1]>>

\* ------------------------------------------------------------------------
\* Majority and intersection merge
\* ------------------------------------------------------------------------
\* the line a finding is compared by: a finding without a line compares as 0
LineNumber(f) == IF f.line.t = "num" THEN f.line.v ELSE 0

\* a fuzzy match: same filename, same category, lines at most 2 apart
FuzzyMatch(f, g) ==
  /\ f.filename = g.filename
  /\ f.category = g.category
  /\ LineNumber(f) - LineNumber(g) \in -2..2

\* the passes that contain a fuzzy match for f
MatchingPasses(runs, f) ==
  {r \in 1..Len(runs) : \E k \in 1..Len(runs[r]) : FuzzyMatch(f, runs[r][k])}

\* the first finding of each filename:line:category key, in order
RECURSIVE FirstOfEachKey(_)
FirstOfEachKey(all) ==
  IF all = <<>> THEN <<>>
  ELSE LET init == SubSeq(all, 1, Len(all) - 1)
           last == all[Len(all)]
       IN IF \E i \in 1..Len(init) :
                 /\ init[i].filename = last.filename
                 /\ init[i].line = last.line
                 /\ init[i].category = last.category
          THEN FirstOfEachKey(init)
          ELSE Append(FirstOfEachKey(init), last)

C12_MajorityMoreThanHalf ==
  (MergeDone /\ unit.strategy = "majority" /\ Len(unit.arg) >= 2) =>
    \A i \in 1..Len(unit.out) :
      2 * Cardinality(MatchingPasses(unit.arg, unit.out[i])) > Len(unit.arg)

\* C13: under the intersection strategy the merged list is the first pass
\* restricted to the findings that have a fuzzy match in every other pass.
C13_IntersectionMerge ==
  (MergeDone /\ unit.strategy = "intersection") =>
    LET runs == unit.arg
        inAll(f) == \A r \in 2..Len(runs) : r \in MatchingPasses(runs, f)
    IN /\ unit.out = SelectSeq(runs[1], inAll)
       /\ \A i \in 1..Len(unit.out) :
            \A r \in 1..Len(runs) :
              \E k \in 1..Len(runs[r]) : FuzzyMatch(unit.out[i], runs[r][k])

\* two passes: a finding of the first pass is kept through a match two lines
\* away, another is dropped because its nearest match is three lines away
C13_Witness ==
  /\ MergeDone /\ unit.strategy = "intersection"
  /\ Len(unit.arg) = 2
  /\ Len(unit.arg[1]) = 2
  /\ Len(unit.out) = 1
  /\ unit.out[1] \notin Range(unit.arg[2])
  /\ \E f \in Range(unit.arg[1]) :
       /\ f \notin Range(unit.out)
       /\ \E g \in Range(unit.arg[2]) :
            f.filename = g.filename /\ f.category = g.category

\* ------------------------------------------------------------------------
\* Parsing a reply
\* ------------------------------------------------------------------------
ParseDone == unit.fn = "parseReviewResponse" /\ unit.pc = "done"

RECURSIVE JoinComma(_)
JoinComma(vs) ==
  IF vs = <<>> THEN <<>>
  ELSE IF Len(vs) = 1 THEN vs[1]
  ELSE vs[1] \o <<",">> \o JoinComma(Tail(vs))

\* the JSON arrays of at most MaxReplyLen tokens whose elements are in V
ArraysOf(V) ==
  {a \in {<<"[">> \o JoinComma(vs) \o <<"]">> :
            vs \in SeqsUpTo({v \in V : Len(v) <= MaxReplyLen - 2},
                            (MaxReplyLen - 1) \div 2)} :
     Len(a) <= MaxReplyLen}

RECURSIVE JsonValues(_)
\* the JSON values nested at most d deep: objects and arrays of values
JsonValues(d) ==
  IF d = 0 THEN {<<o>> : o \in ReplyTokens \cap DOMAIN JsonObject}
  ELSE JsonValues(d - 1) \cup ArraysOf(JsonValues(d - 1))

\* the token sequences that are the text of a JSON array, by the grammar
ValidJsonArrays == ArraysOf(JsonValues(MaxReplyLen \div 2))

\* the text between the first "[" and the last "]" once the fences are off
ArraySlice(reply) ==
  LET t == StripTrailingFence(StripLeadingFence(Trim(reply)))
  IN IF IndexOf(t, "[") = 0 THEN <<>>
     ELSE SubSeq(t, IndexOf(t, "["), LastIndexOf(t, "]"))

\* C14: parseReviewResponse returns a list without throwing on every reply;
\* a reply with no "[" followed later by "]" gives the empty list, and so
\* does a reply whose text from the first "[" to the last "]" is not a JSON
\* array.
C14_ParseNeverThrows ==
  ParseDone =>
    LET reply == unit.arg
        pair == \E i, j \in 1..Len(reply) : i < j /\ reply[i] = "[" /\ reply[j] = "]"
        slice == SelectSeq(ArraySlice(reply), LAMBDA tok : tok \notin {"NL", "SP"})
    IN /\ ~unit.out.threw
       /\ ~pair => unit.out.findings = <<>>
       /\ slice \notin ValidJsonArrays => unit.out.findings = <<>>

\* a reply with a bracket pair around text that is not JSON, parsed to the
\* empty list
C14_Witness ==
  /\ ParseDone
  /\ IndexOf(unit.arg, "[") # 0
  /\ IndexOf(unit.arg, "[") < LastIndexOf(unit.arg, "]")
  /\ "{high@20}" \in Range(unit.arg)
  /\ "txt" \in Range(ArraySlice(unit.arg))
  /\ unit.out = [threw |-> FALSE, findings |-> <<>>]

\* ------------------------------------------------------------------------
\* Error comments
\* ------------------------------------------------------------------------
\* C15: an error comment posted because a review failed holds at most the
\* first 500 characters of the message of the error.
C15_ErrorCommentTruncated ==
  \A t \in TaskIds :
    (tasks[t].pc = "done" /\ Range(tasks[t].posts) \cap {"engineError", "shellError"} # {}) =>
      /\ tasks[t].quoted <= 500
      /\ tasks[t].quoted = IF tasks[t].error < 500 THEN tasks[t].error ELSE 500

\* ------------------------------------------------------------------------
\* The handler returns before the review
\* ------------------------------------------------------------------------
\* C16: the handler invocation that accepts a delivery adds the dedup key
\* and leaves the review task scheduled with none of its steps run (no
\* provider created, no file listed, no model call, nothing posted), and
\* changes no other task; every step of a review is a later step of its own.
C16_HandlerReturnsFirst ==
  [][Len(tasks') > Len(tasks) =>
       LET new == tasks'[Len(tasks')]
       IN /\ Len(tasks') = Len(tasks) + 1
          /\ new.key \in processingPRs' \ processingPRs
          /\ new.pc = "scheduled"
          /\ ~new.listed /\ new.calls = <<>> /\ new.posts = <<>>
          /\ new.request.api = "none"
          /\ \A t \in TaskIds : tasks'[t] = tasks[t]]_vars

\* the handler has returned and has handled a further delivery for the same
\* pull request while the review it scheduled has not begun
C16_Witness ==
  \E t \in TaskIds :
    /\ tasks[t].pc = "scheduled"
    /\ tasks[t].key \in processingPRs
    /\ dropped > 0

\* ------------------------------------------------------------------------
\* Patch pipeline
\* ------------------------------------------------------------------------
PipelineRun == script.tool = "fixit"

\* C17: in run mode at most one patch-edit subprocess is alive at any time;
\* the subprocess of the next stage is spawned only after the previous one
\* has exited or has been killed, also after a timeout.
C17_OneSubprocessAlive ==
  PipelineRun => Cardinality(script.alive) <= 1

\* C18: in the pipeline with the 270 s timeout, a subprocess still alive when
\* the timeout elapses is killed; the log file of the stage then holds the
\* timeout error, not the normal output log; and the run goes on to the next
\* stage (or ends, after the last one) instead of aborting.
C18_TimeoutKillsAndContinues ==
  /\ [][(/\ PipelineRun /\ TIMEOUT_MS(script.version) = 270000
          /\ ~script.timedOut /\ script'.timedOut
          /\ script.index \in script.alive) =>
            /\ script.index \notin script'.alive
            /\ script'.ends[script.index] = "killed"
            /\ script'.pc = "await"]_vars
  /\ [][(/\ PipelineRun /\ TIMEOUT_MS(script.version) = 270000
          /\ script.timedOut /\ script'.index # script.index) =>
            /\ script'.logs[script.index] = "timeout"
            /\ script'.index = script.index + 1
            /\ script'.pc = IF script.index < script.stages THEN "spawn" ELSE "done"]_vars
  /\ [](\A k \in 1..(IF PipelineRun THEN script.stages ELSE 0) :
          (TIMEOUT_MS(script.version) = 270000 /\ script.ends[k] = "killed" /\ script.index > k)
            => script.logs[k] = "timeout")

\* a stage was killed at its timeout, its log holds the timeout error and
\* the stage after it has been started
C18_Witness ==
  /\ PipelineRun /\ TIMEOUT_MS(script.version) = 270000
  /\ \E k \in 1..script.stages :
       /\ script.ends[k] = "killed"
       /\ script.logs[k] = "timeout"
       /\ k + 1 \in Range(script.attempts)

\* C19: in run mode every stage is attempted exactly once, in plan order,
\* whatever the earlier stages did; every attempted stage leaves a log file;
\* the run ends after the last stage.
C19_EveryStageOnceWithLog ==
  PipelineRun =>
    /\ script.attempts = [k \in 1..Len(script.attempts) |-> k]
    /\ Len(script.attempts) <= script.stages
    /\ script.pc = "done" =>
         /\ Len(script.attempts) = script.stages
         /\ \A k \in 1..script.stages : script.logs[k] # "none"

\* ------------------------------------------------------------------------
\* Fix tool
\* ------------------------------------------------------------------------
\* C20: a run of the fix tool that reaches its output step has written the
\* JSON and the text artifact, and every group handed to the LLM analyser is
\* in both: with the model's suggestion when the call succeeded, with an
\* error description when it failed or timed out.
C20_ArtifactsHoldAnalysedGroups ==
  (script.tool = "mrfixit" /\ script.pc = "done") =>
    /\ script.written = {"json", "text"}
    /\ \A h \in 1..Len(script.handed) :
         \A artifact \in {script.json, script.text} :
           \E j \in 1..Len(artifact) :
             /\ artifact[j].group = script.handed[h].group
             /\ artifact[j].description =
                  IF script.handed[h].outcome = "ok" THEN "suggestion" ELSE "error"

\* C21: groupErrors puts all TS2835 and all TS2834 errors of a log into one
\* group with the pattern 'Missing file extension in import', whose count is
\* the number of those errors: 20 for 15 TS2835 and 5 TS2834 errors.
C21_ExtensionErrorsOneGroup ==
  (unit.fn = "groupErrors" /\ unit.pc = "done") =>
    LET n == Cardinality({i \in 1..Len(unit.arg) :
                            unit.arg[i].code \in {"TS2835", "TS2834"}})
        ext == {j \in 1..Len(unit.out) :
                  unit.out[j].pattern = "Missing file extension in import"}
    IN n > 0 => /\ Cardinality(ext) = 1
                /\ \A j \in ext : unit.out[j].count = n

\* C21 as the code has it: the TS2835 errors and the TS2834 errors of a log
\* go to two groups, one for each code, both with the pattern 'Missing file
\* extension in import' and each counting the errors of its code; for 15
\* TS2835 errors followed by 5 TS2834 errors the groups count 15 and 5.
C21_ExtensionErrorsGroupedByCode ==
  (unit.fn = "groupErrors" /\ unit.pc = "done") =>
    LET ext == {j \in 1..Len(unit.out) :
                  unit.out[j].pattern = "Missing file extension in import"}
        n(c) == Cardinality({i \in 1..Len(unit.arg) : unit.arg[i].code = c})
    IN /\ \A j \in ext : unit.out[j].code \in {"TS2835", "TS2834"}
       /\ \A c \in {"TS2835", "TS2834"} :
            LET of == {j \in ext : unit.out[j].code = c}
            IN /\ Cardinality(of) = IF n(c) > 0 THEN 1 ELSE 0
               /\ \A j \in of : unit.out[j].count = n(c)
                                  /\ Len(unit.out[j].errors) = n(c)
       /\ Len(unit.arg) = 20 =>
            /\ Len(unit.out) = 2
            /\ unit.out[1].code = "TS2835" /\ unit.out[1].count = 15
            /\ unit.out[2].code = "TS2834" /\ unit.out[2].count = 5

C21_Witness ==
  /\ unit.fn = "groupErrors" /\ unit.pc = "done"
  /\ Len(unit.arg) = 20
  /\ Len(unit.out) = 2

\* ------------------------------------------------------------------------
\* Configuration loader
\* ------------------------------------------------------------------------
\* a provider was asked for and the configuration could be loaded
Resolving(op) == loader.pc = "ready" /\ loader.out.op = op /\ loader.out.error # "load"

BareNames == {<<"llama">>, <<"14b">>, <<"qwen", ":", "14b">>}

\* C22: a model string without a provider prefix resolves to the default
\* provider with the whole string as the model name, also when the name has
\* a colon in it; a model string 'P:M' with P a configured provider resolves
\* to provider P and model M, M keeping its further colons.
C22_ModelStringResolution ==
  \A op \in {"createProvider", "getLLMProvider"} :
    Resolving(op) =>
      LET m == loader.out.arg
      IN /\ m \in BareNames =>
              loader.out.resolved = [provider |-> <<loader.config.default_provider>>,
                                     model |-> m]
         /\ (Len(m) > 2 /\ m[2] = ":" /\ m[1] \in ConfiguredProviders) =>
              loader.out.resolved = [provider |-> <<m[1]>>,
                                     model |-> SubSeq(m, 3, Len(m))]

\* C23: createProvider, when the requested model is not in the models list
\* of the resolved provider, goes on with the default model and logs one
\* warning if the default model is in the list and two if it is not; when
\* the requested model is in the list it logs no warning and keeps it. A
\* provider that is constructed carries the model name so chosen.
C23_ModelFallback ==
  (Resolving("createProvider") /\ loader.out.error # "Provider not found") =>
    LET m == loader.out.arg
        prefixed == IndexOf(m, ":") # 0
        provider == IF prefixed THEN SubSeq(m, 1, IndexOf(m, ":") - 1)
                    ELSE <<loader.config.default_provider>>
        requested == IF prefixed THEN SubSeq(m, IndexOf(m, ":") + 1, Len(m)) ELSE m
        list == IF provider = <<"ollama">> THEN loader.config.models ELSE {<<"llama">>}
        default == loader.config.default_model
    IN /\ loader.out.warnings = IF requested \in list THEN 0
                                ELSE IF default \in list THEN 1 ELSE 2
       /\ ~loader.out.threw =>
            loader.out.provider.model = IF requested \in list THEN requested ELSE default

\* the harness of the spec: 'ollama:qwen2.5-coder:14b' with neither that
\* model nor the default model in the list
C23_Witness ==
  /\ Resolving("createProvider")
  /\ loader.out.arg = <<"ollama", ":", "qwen", ":", "14b">>
  /\ loader.config.models = {}
  /\ loader.out.warnings = 2
  /\ ~loader.out.threw
  /\ loader.out.provider.model = loader.config.default_model

\* C24: once load has succeeded, every later load returns the cached object,
\* reads nothing and does not fail, whatever has become of the file.
C24_LoadIsMemoized ==
  [][(loader.loaded /\ loader'.out.op = "load") =>
       /\ ~loader'.out.threw
       /\ loader'.out.value = loader.cache
       /\ loader'.reads = loader.reads]_vars

\* C25: asking for a cloud provider whose API key is not in the environment,
\* or for a provider no adapter exists for, fails with an error and gives no
\* provider, on every path that constructs providers.
C25_ResolutionErrorsAreFatal ==
  \A op \in {"createProvider", "getLLMProvider"} :
    Resolving(op) =>
      /\ (loader.out.resolved.provider \in {<<"anthropic">>, <<"google">>}
            /\ ~loader.keySet) => loader.out.threw /\ loader.out.provider = Null
      /\ loader.out.resolved.provider \notin {<<"ollama">>, <<"anthropic">>, <<"google">>}
            => loader.out.threw /\ loader.out.provider = Null

\* ------------------------------------------------------------------------
\* Default merge strategy
\* ------------------------------------------------------------------------
\* C26: when PR_REVIEW_MERGE_STRATEGY is not set, or names none of union,
\* intersection and majority, the merge is the union merge: the findings of
\* all passes in order, one finding for each filename:line:category key.
C26_DefaultIsUnion ==
  (MergeDone /\ unit.strategy \notin {"union", "intersection", "majority"}) =>
    LET all == Flat(unit.arg)
        out == unit.out
        key(f) == TemplateStr(f.filename) \o ":" \o LineStr(f.line) \o ":"
                    \o TemplateStr(f.category)
    IN /\ \A i, j \in 1..Len(out) : key(out[i]) = key(out[j]) => i = j
       /\ {key(out[j]) : j \in 1..Len(out)} = {key(all[i]) : i \in 1..Len(all)}
       /\ Range(out) \subseteq Range(all)

\* ------------------------------------------------------------------------
\* The no-issues comment
\* ------------------------------------------------------------------------
\* C27: the 'No significant issues found' comment is posted only by a review
\* in which some model call returned and was parsed; when every model call
\* failed the pull request is not reported as free of issues.
C27_NoIssuesNeedsAnAnswer ==
  [][\A t \in TaskIds :
       (tasks'[t].posts = Append(tasks[t].posts, "noIssues")) =>
         \E j \in 1..Len(tasks[t].calls) : tasks[t].calls[j].state = "parsed"]_vars

\* ------------------------------------------------------------------------
\* Deliveries during a review
\* ------------------------------------------------------------------------
\* C28: every delivery for a pull request is eventually followed by a review
\* that lists the files of the pull request after the delivery came in, also
\* when it came in while an earlier review of that pull request was scheduled
\* or running.
C28_DeliveryIsReviewed ==
  \A t \in 1..MaxDeliveries :
    [](t <= Len(tasks) /\ tasks[t].missed
         => <>(\E u \in (t + 1)..Len(tasks) :
                 tasks[u].key = tasks[t].key /\ tasks[u].listed))

\* ------------------------------------------------------------------------
\* Filter statistics
\* ------------------------------------------------------------------------
\* C29: after filterFiles the statistics add up, total = reviewed + ignored
\* + tooLarge, for every file list, so that the coverage line of the summary
\* accounts for every file that was not reviewed.
C29_StatsAddUp ==
  FilterDone =>
    /\ unit.out.stats.total = unit.out.stats.reviewed + unit.out.stats.ignored
                                + unit.out.stats.tooLarge
    /\ unit.out.stats.reviewed < unit.out.stats.total => Coverage(unit.out.stats).shown

\* ------------------------------------------------------------------------
\* Merging under a reordering of the passes
\* ------------------------------------------------------------------------
Orderings(n) == {p \in [1..n -> 1..n] : \A i, j \in 1..n : p[i] = p[j] => i = j}

Reordered(runs, p) == [i \in 1..Len(runs) |-> runs[p[i]]]

KeySet(findings) == {FindingKey(findings[i]) : i \in 1..Len(findings)}

\* C30: for union, intersection and majority the merged result has the same
\* set of filename:line:category keys under every ordering of the passes.
C30_KeySetOrderIndependent ==
  (MergeDone /\ unit.strategy \in {"union", "intersection", "majority"}) =>
    \A p \in Orderings(Len(unit.arg)) :
      KeySet(mergeFindings(Reordered(unit.arg, p), unit.strategy)) = KeySet(unit.out)

\* C30 as the code has it: for union and majority the set of keys of the
\* merged result is the same under every ordering of the passes; for
\* intersection it is the same under every ordering that keeps the first
\* pass first, and it is always a set of keys of the pass that comes first.
C30_KeySetUnderReordering ==
  (MergeDone /\ unit.strategy \in {"union", "intersection", "majority"}) =>
    \A p \in Orderings(Len(unit.arg)) :
      LET other == mergeFindings(Reordered(unit.arg, p), unit.strategy)
      IN /\ unit.strategy \in {"union", "majority"} => KeySet(other) = KeySet(unit.out)
         /\ unit.strategy = "intersection" =>
              /\ p[1] = 1 => KeySet(other) = KeySet(unit.out)
              /\ KeySet(other) \subseteq KeySet(unit.arg[p[1]])

\* two different passes merged by majority, where swapping them changes the
\* merged list and not its keys
C30_Witness ==
  /\ MergeDone /\ unit.strategy = "majority"
  /\ Len(unit.arg) = 2
  /\ unit.out # <<>>
  /\ mergeFindings(<<unit.arg[2], unit.arg[1]>>, "majority") # unit.out
  /\ KeySet(mergeFindings(<<unit.arg[2], unit.arg[1]>>, "majority")) = KeySet(unit.out)

====
